---- MODULE Spec2Model ----
(***************************************************************************)
(* List Intersector: key normalization, key derivation, deduplication,     *)
(* set-membership filter, inner join and the emission of a run's outputs.  *)
(*                                                                         *)
(* A string is a sequence of one-character strings.  A pandas missing key  *)
(* (pd.NA) is the one-element sequence NA, which no string equals.         *)
(* pandas is modelled as its 2.x releases behave: astype(str) of an object *)
(* series writes None, NaN and pd.NA as the texts None, nan and <NA>;      *)
(* merge and drop_duplicates treat two missing keys as equal; merge        *)
(* raises when a suffix produces a duplicate column label.                 *)
(***************************************************************************)
EXTENDS Integers, Sequences, FiniteSets, TLC

VARIABLES
    cfg,          \* sidebar options: case_insensitive, trim_spaces, ...
    key_type_a,   \* "company" or "email": key type chosen for List A
    key_type_b,   \* the same for List B
    cols_a,       \* column names of the uploaded List A
    cols_b,       \* column names of the uploaded List B
    df_a,         \* rows of List A: [idx, cell, key]
    df_b,         \* rows of List B: [idx, cell, key]
    pc,           \* position of the script
    a_keys,       \* set(df_a["_key_norm"].dropna())
    b_in_both,    \* the filtered table (rows of df_b)
    merged,       \* the inner join: rows [a, b] of original row indices
    out_cols,     \* columns of the tables handed to the download buttons
    emitted,      \* outputs written to the page so far
    error,        \* TRUE once st.exception / st.error reported a failure
    arg,          \* input of the function under study (function specifications)
    res           \* its results, one per application

vars == <<cfg, key_type_a, key_type_b, cols_a, cols_b, df_a, df_b, pc, a_keys,
          b_in_both, merged, out_cols, emitted, error, arg, res>>

-----------------------------------------------------------------------------
(* Characters *)

Uppers == <<"A","B","C","D","E","F","G","H","I","J","K","L","M",
            "N","O","P","Q","R","S","T","U","V","W","X","Y","Z">>
Lowers == <<"a","b","c","d","e","f","g","h","i","j","k","l","m",
            "n","o","p","q","r","s","t","u","v","w","x","y","z">>
Digits == <<"0","1","2","3","4","5","6","7","8","9">>

Range(f) == {f[i] : i \in DOMAIN f}

\* the right single quote U+2019, one character of the punctuation class
RSQUO == "u2019"

\* str.strip() and the regex class \s
IsSpace(c) == c \in {" ", "\t", "\n"}

\* the regex class \w
WordChars == Range(Uppers) \cup Range(Lowers) \cup Range(Digits) \cup {"_"}

IsWord(c) == c \in WordChars

\* upper-case letter -> its lower-case letter
ToLower == [c \in Range(Uppers) |-> Lowers[CHOOSE i \in DOMAIN Uppers : Uppers[i] = c]]

LowerChar(c) == IF c \in DOMAIN ToLower THEN ToLower[c] ELSE c

\* str.lower()
RECURSIVE lower(_)
lower(s) == IF s = <<>> THEN <<>> ELSE <<LowerChar(Head(s))>> \o lower(Tail(s))

RECURSIVE lstrip(_)
lstrip(s) ==
    IF s = <<>> THEN s
    ELSE IF IsSpace(Head(s)) THEN lstrip(Tail(s)) ELSE s

RECURSIVE rstrip(_)
rstrip(s) ==
    IF s = <<>> THEN s
    ELSE IF IsSpace(s[Len(s)]) THEN rstrip(SubSeq(s, 1, Len(s) - 1)) ELSE s

\* str.strip()
strip(s) == rstrip(lstrip(s))

-----------------------------------------------------------------------------
(* Missing values *)

\* pd.NA in a key series
NA == <<"<NA>">>

\* str(None), str(float("nan")), str(pd.NA)
StrNone == <<"N","o","n","e">>
StrNan == <<"n","a","n">>
StrNA == <<"<","N","A",">">>

\* str(n) of a non-negative integer
RECURSIVE StrInt(_)
StrInt(n) ==
    IF n < 10 THEN <<Digits[n + 1]>>
    ELSE StrInt(n \div 10) \o <<Digits[(n % 10) + 1]>>

\* A cell of an uploaded sheet: text, a number, or empty (NaN).
TextCell(s) == [kind |-> "str", s |-> s]
NumCell(n) == [kind |-> "num", n |-> n]
NanCell == [kind |-> "nan"]

\* Python None, an element of the series email_to_domain was mapped over
NoneVal == [kind |-> "none"]

\* Series.astype(str), one element: str(x) of a string, an integer, NaN, None
astype_str(v) ==
    CASE v.kind = "str" -> v.s
      [] v.kind = "num" -> StrInt(v.n)
      [] v.kind = "nan" -> StrNan
      [] v.kind = "none" -> StrNone
      [] v.kind = "na" -> StrNA

-----------------------------------------------------------------------------
(* email_to_domain *)

Contains(s, c) == \E i \in 1..Len(s) : s[i] = c

\* s.split(c, 1)[1]: what follows the first c
AfterFirst(s, c) ==
    LET i == CHOOSE k \in 1..Len(s) : s[k] = c /\ \A j \in 1..(k - 1) : s[j] # c
    IN SubSeq(s, i + 1, Len(s))

\* s.rsplit(c, 1)[1]: what follows the last c
AfterLast(s, c) ==
    LET i == CHOOSE k \in 1..Len(s) : s[k] = c /\ \A j \in (k + 1)..Len(s) : s[j] # c
    IN SubSeq(s, i + 1, Len(s))

\* email_to_domain splitting on the last @ instead of the first
email_to_domain_rsplit(cell) ==
    IF cell.kind # "str" THEN NoneVal
    ELSE LET email == strip(cell.s) IN
         IF ~Contains(email, "@") THEN NoneVal
         ELSE TextCell(lower(strip(AfterLast(email, "@"))))

email_to_domain(cell) ==
    IF cell.kind # "str" THEN NoneVal
    ELSE LET email == strip(cell.s) IN
         IF ~Contains(email, "@") THEN NoneVal
         ELSE TextCell(lower(strip(AfterFirst(email, "@"))))

-----------------------------------------------------------------------------
(* normalize_key_series, one element *)

\* the class of commas, periods, U+2019 and apostrophes replaced by ""
RemovePunct(s) == SelectSeq(s, LAMBDA c : c \notin {",", ".", RSQUO, "'"})

\* \s*&\s* replaced by " and ", scanning left to right
RECURSIVE ReplaceAmp(_)
ReplaceAmp(s) ==
    IF s = <<>> THEN <<>>
    ELSE LET r == lstrip(s) IN
         IF r # <<>> /\ Head(r) = "&"
         THEN <<" ","a","n","d"," ">> \o ReplaceAmp(lstrip(Tail(r)))
         ELSE <<Head(s)>> \o ReplaceAmp(Tail(s))

\* the alternatives of suffix_pat, in the pattern's order
suffix_tokens == <<
    <<"i","n","c","o","r","p","o","r","a","t","e","d">>,
    <<"i","n","c">>,
    <<"l","l","c">>,
    <<"l",".","l",".","c">>,
    <<"l","t","d">>,
    <<"l",".","t",".","d">>,
    <<"c","o">>,
    <<"c","o","m","p","a","n","y">>,
    <<"c","o","r","p">>,
    <<"c","o","r","p","o","r","a","t","i","o","n">>,
    <<"g","m","b","h">>,
    <<"s",".","a",".">>,
    <<"s","r","l">>,
    <<"p","l","c">>,
    <<"b","v">>,
    <<"n",".","v",".">>,
    <<"a","g">>,
    <<"p","t","e">>,
    <<"p","t","y">>,
    <<"s",".","r",".","o",".">>,
    <<"o","y">>,
    <<"a","b">>,
    <<"s","a","s">>,
    <<"s","a">>,
    <<"b","v","b","a">>,
    <<"k","g">>,
    <<"k","g","a","a">>
>>

\* \b between positions p-1 and p of s
WordBoundary(s, p) ==
    LET before == p > 1 /\ IsWord(s[p - 1])
        after == p <= Len(s) /\ IsWord(s[p])
    IN before # after

\* the alternative tok matches s at position i, ignoring case, \b on both sides
TokenAt(s, i, tok) ==
    /\ WordBoundary(s, i)
    /\ i + Len(tok) - 1 <= Len(s)
    /\ \A j \in 1..Len(tok) : LowerChar(s[i + j - 1]) = tok[j]
    /\ WordBoundary(s, i + Len(tok))

\* length of the match of suffix_pat at position i, 0 when it does not match
MatchLen(s, i) ==
    LET hits == IF WordBoundary(s, i)
                THEN {k \in DOMAIN suffix_tokens : TokenAt(s, i, suffix_tokens[k])}
                ELSE {}
    IN
    IF hits = {} THEN 0
    ELSE LET k == CHOOSE h \in hits : \A g \in hits : h <= g
             n == Len(suffix_tokens[k])
         IN IF i + n <= Len(s) /\ s[i + n] = "." THEN n + 1 ELSE n

\* suffix_pat replaced by "", from position i on
RECURSIVE RemoveSuffixesFrom(_, _)
RemoveSuffixesFrom(s, i) ==
    IF i > Len(s) THEN <<>>
    ELSE LET m == MatchLen(s, i) IN
         IF m > 0 THEN RemoveSuffixesFrom(s, i + m)
         ELSE <<s[i]>> \o RemoveSuffixesFrom(s, i + 1)

RemoveSuffixes(s) == RemoveSuffixesFrom(s, 1)

\* \s{2,} replaced by " "
RECURSIVE CollapseSpaces(_)
CollapseSpaces(s) ==
    IF s = <<>> THEN <<>>
    ELSE LET r == lstrip(s) IN
         IF Len(s) - Len(r) >= 2 THEN <<" ">> \o CollapseSpaces(r)
         ELSE <<Head(s)>> \o CollapseSpaces(Tail(s))

\* ^the\s+ replaced by "", ignoring case
StripThe(s) ==
    IF /\ Len(s) >= 4
       /\ lower(SubSeq(s, 1, 3)) = <<"t","h","e">>
       /\ IsSpace(s[4])
    THEN lstrip(SubSeq(s, 4, Len(s)))
    ELSE s

\* s.str.fullmatch(r"\s*nan\s*", case=False)
IsNanText(s) == lower(strip(s)) = StrNan

normalize_key_series(v, for_company, c) ==
    LET s0 == astype_str(v)
        s1 == IF c.trim_spaces THEN strip(s0) ELSE s0
        s2 == IF c.case_insensitive THEN lower(s1) ELSE s1
        s3 == IF for_company /\ c.normalize_company_suffixes
              THEN strip(CollapseSpaces(RemoveSuffixes(ReplaceAmp(RemovePunct(s2)))))
              ELSE s2
        s4 == IF for_company /\ c.strip_the_prefix THEN StripThe(s3) ELSE s3
    IN IF IsNanText(s4) \/ Len(s4) = 0 THEN NA ELSE s4

\* the configurations of the sidebar's normalization checkboxes
Configs ==
    [case_insensitive : BOOLEAN, trim_spaces : BOOLEAN,
     normalize_company_suffixes : BOOLEAN, strip_the_prefix : BOOLEAN,
     dedupe_on_key : BOOLEAN]

-----------------------------------------------------------------------------
(* Bounds and inputs *)

\* rows of List A and List B together
MaxRows == 3

\* tokens concatenated into one input string of the normalizer
MaxTokens == 3

\* characters of one input string of email_to_domain
MaxEmailLen == 4

RECURSIVE SeqsUpTo(_, _)
SeqsUpTo(S, n) ==
    IF n = 0 THEN {<<>>}
    ELSE LET shorter == SeqsUpTo(S, n - 1) IN
         shorter \cup {Append(q, x) : q \in {r \in shorter : Len(r) = n - 1}, x \in S}

\* cells of the key column of an uploaded sheet
Cells ==
    { TextCell(<<"A","c","m","e"," ","I","n","c">>),
      TextCell(<<"a","c","m","e">>),
      TextCell(<<"x","@","a","c","m","e">>),
      NanCell }

\* column names of the two uploaded sheets
Schemas ==
    { [a |-> {"Company", "Email"}, b |-> {"Company", "Email"}],
      [a |-> {"Company", "Company_A"}, b |-> {"Company", "Name"}] }

KeyTypes == {"company", "email"}

\* a table before the key is attached: rows numbered in sheet order
Table(cells) == [i \in 1..Len(cells) |-> [idx |-> i, cell |-> cells[i]]]

-----------------------------------------------------------------------------
(* The script: key choice, deduplication, the run *)

\* the key of one cell: the company column normalized, or the domain of the
\* email column normalized
derive_key(cell, key_type, c) ==
    IF key_type = "company"
    THEN normalize_key_series(cell, TRUE, c)
    ELSE normalize_key_series(email_to_domain(cell), FALSE, c)

\* derive_key tabulated over the input cells (@@ makes the table an explicit
\* function, computed once)
KeyTable ==
    [cell \in Cells, key_type \in KeyTypes, c \in Configs |-> derive_key(cell, key_type, c)]
        @@ <<>>

\* the key series of one list
key_series(df, key_type, c) ==
    [i \in 1..Len(df) |-> KeyTable[df[i].cell, key_type, c]]

\* df["_key_norm"] = key_series
attach_key(df, keys) ==
    [i \in 1..Len(df) |-> [idx |-> df[i].idx, cell |-> df[i].cell, key |-> keys[i]]]

\* df.drop_duplicates(subset=["_key_norm"], keep="first"): missing keys are
\* equal to each other
RECURSIVE drop_duplicates(_)
drop_duplicates(df) ==
    IF df = <<>> THEN <<>>
    ELSE LET n == Len(df)
             front == SubSeq(df, 1, n - 1)
         IN IF \E j \in 1..(n - 1) : df[j].key = df[n].key
            THEN drop_duplicates(front)
            ELSE Append(drop_duplicates(front), df[n])

dedupe(df, c) == IF c.dedupe_on_key THEN drop_duplicates(df) ELSE df

\* the key set built without dropna()
keys_with_missing(df) == {df[i].key : i \in 1..Len(df)}

\* set(df_a["_key_norm"].dropna().tolist())
dropna_keys(df) == {df[i].key : i \in {j \in 1..Len(df) : df[j].key # NA}}

\* df_b[df_b["_key_norm"].isin(a_keys)]
filter_isin(df, keys) == SelectSeq(df, LAMBDA r : r.key \in keys)

\* pd.merge(..., left_on=df_a["_key_norm"], right_on=df_b["_key_norm"],
\* how="inner"): one row per pair of rows with equal keys; two missing keys
\* are equal
merge_inner(dfa, dfb) ==
    {[a |-> dfa[i].idx, b |-> dfb[j].idx] :
        <<i, j>> \in {p \in (1..Len(dfa)) \X (1..Len(dfb)) : dfa[p[1]].key = dfb[p[2]].key}}

\* column labels of one side of the merge after suffixes=("_A", "_B")
suffixed(own, other, suffix) ==
    {IF col \in other THEN col \o suffix ELSE col : col \in own}

\* a suffixed label that collides with another label of the same side
suffix_collision(own, other, suffix) ==
    \E col \in own \cap other : (col \o suffix) \in own

\* columns of the merged frame: both sides without _key_norm, and the key
\* column the merge adds for keys passed as arrays
merged_columns(ca, cb) ==
    LET la == ca \ {"_key_norm"}
        lb == cb \ {"_key_norm"}
    IN {"key_0"} \cup suffixed(la, lb, "_A") \cup suffixed(lb, la, "_B")

merge_raises(ca, cb) ==
    LET la == ca \ {"_key_norm"}
        lb == cb \ {"_key_norm"}
    IN suffix_collision(la, lb, "_A") \/ suffix_collision(lb, la, "_B")

NoExports == [filtered |-> {}, joined |-> {}]

FunctionIdle == arg = <<>> /\ res = <<>>

Init ==
    /\ cfg \in Configs
    /\ key_type_a \in KeyTypes
    /\ key_type_b \in KeyTypes
    /\ \E sch \in Schemas : cols_a = sch.a /\ cols_b = sch.b
    /\ \E ca \in SeqsUpTo(Cells, MaxRows) :
       \E cb \in SeqsUpTo(Cells, MaxRows - Len(ca)) :
          df_a = Table(ca) /\ df_b = Table(cb)
    /\ pc = "uploaded"
    /\ a_keys = {}
    /\ b_in_both = <<>>
    /\ merged = {}
    /\ out_cols = NoExports
    /\ emitted = {}
    /\ error = FALSE
    /\ FunctionIdle

\* Both sheets are uploaded: keys are derived and attached, duplicates dropped.
ChooseKeys ==
    /\ pc = "uploaded"
    /\ df_a' = dedupe(attach_key(df_a, key_series(df_a, key_type_a, cfg)), cfg)
    /\ df_b' = dedupe(attach_key(df_b, key_series(df_b, key_type_b, cfg)), cfg)
    /\ cols_a' = cols_a \cup {"_key_norm"}
    /\ cols_b' = cols_b \cup {"_key_norm"}
    /\ pc' = "ready"
    /\ UNCHANGED <<cfg, key_type_a, key_type_b, a_keys, b_in_both, merged,
                   out_cols, emitted, error, arg, res>>

\* The button is pressed and the merge raises: the except branch reports it.
RunMergeRaises ==
    /\ pc = "ready"
    /\ merge_raises(cols_a, cols_b)
    /\ a_keys' = dropna_keys(df_a)
    /\ b_in_both' = filter_isin(df_b, a_keys')
    /\ error' = TRUE
    /\ pc' = "done"
    /\ UNCHANGED <<cfg, key_type_a, key_type_b, cols_a, cols_b, df_a, df_b,
                   merged, out_cols, emitted, arg, res>>

\* The button is pressed and writing one of the two downloads raises
\* (table = "filtered" or "joined"): what was written before it stays on the page.
RunExportRaises(table) ==
    /\ pc = "ready"
    /\ ~merge_raises(cols_a, cols_b)
    /\ a_keys' = dropna_keys(df_a)
    /\ b_in_both' = filter_isin(df_b, a_keys')
    /\ merged' = merge_inner(df_a, df_b)
    /\ IF table = "filtered"
       THEN /\ emitted' = {"summary", "preview"}
            /\ out_cols' = out_cols
       ELSE /\ emitted' = {"summary", "preview", "download_filtered"}
            /\ out_cols' = [out_cols EXCEPT !.filtered = cols_b]
    /\ error' = TRUE
    /\ pc' = "done"
    /\ UNCHANGED <<cfg, key_type_a, key_type_b, cols_a, cols_b, df_a, df_b, arg, res>>

\* The button is pressed and the run completes.
RunCompletes ==
    /\ pc = "ready"
    /\ ~merge_raises(cols_a, cols_b)
    /\ a_keys' = dropna_keys(df_a)
    /\ b_in_both' = filter_isin(df_b, a_keys')
    /\ merged' = merge_inner(df_a, df_b)
    /\ emitted' = {"summary", "preview", "download_filtered", "download_joined",
                   "diagnostics"}
    /\ out_cols' = [filtered |-> cols_b, joined |-> merged_columns(cols_a, cols_b)]
    /\ pc' = "done"
    /\ UNCHANGED <<cfg, key_type_a, key_type_b, cols_a, cols_b, df_a, df_b,
                   error, arg, res>>

Next ==
    \/ ChooseKeys
    \/ RunMergeRaises
    \/ RunExportRaises("filtered")
    \/ RunExportRaises("joined")
    \/ RunCompletes

Spec == Init /\ [][Next]_vars

-----------------------------------------------------------------------------
(* normalize_key_series applied to a string, and again to its result *)

\* pieces of the strings handed to the normalizer
NormTokens ==
    { <<"t","h","e"," ">>, <<"A","c","m","e">>, <<"I","n","c",".">>, <<" ">>,
      <<"&">>, <<"n","a","n">>, <<",">>, <<"c","o">> }

RECURSIVE Concat(_)
Concat(q) == IF q = <<>> THEN <<>> ELSE Head(q) \o Concat(Tail(q))

NormInputs == {Concat(q) : q \in SeqsUpTo(NormTokens, MaxTokens)}

PipelineIdle ==
    /\ key_type_a = "company"
    /\ key_type_b = "company"
    /\ cols_a = {}
    /\ cols_b = {}
    /\ df_a = <<>>
    /\ df_b = <<>>
    /\ a_keys = {}
    /\ b_in_both = <<>>
    /\ merged = {}
    /\ out_cols = NoExports
    /\ emitted = {}
    /\ error = FALSE

\* an element of a key series, as the next normalization reads it
KeyValue(k) == IF k = NA THEN [kind |-> "na"] ELSE TextCell(k)

InitNorm ==
    /\ cfg \in {c \in Configs : c.dedupe_on_key}
    /\ arg \in [s : NormInputs, for_company : BOOLEAN]
    /\ res = <<>>
    /\ pc = "norm0"
    /\ PipelineIdle

NormalizeOnce ==
    /\ pc = "norm0"
    /\ res' = <<normalize_key_series(TextCell(arg.s), arg.for_company, cfg)>>
    /\ pc' = "norm1"
    /\ UNCHANGED <<cfg, key_type_a, key_type_b, cols_a, cols_b, df_a, df_b, a_keys,
                   b_in_both, merged, out_cols, emitted, error, arg>>

NormalizeAgain ==
    /\ pc = "norm1"
    /\ res' = Append(res, normalize_key_series(KeyValue(res[1]), arg.for_company, cfg))
    /\ pc' = "norm2"
    /\ UNCHANGED <<cfg, key_type_a, key_type_b, cols_a, cols_b, df_a, df_b, a_keys,
                   b_in_both, merged, out_cols, emitted, error, arg>>

NextNorm == NormalizeOnce \/ NormalizeAgain

SpecNorm == InitNorm /\ [][NextNorm]_vars

-----------------------------------------------------------------------------
(* email_to_domain applied to a cell *)

EmailChars == {"a", "B", "@", " ", "."}

EmailInputs ==
    {TextCell(s) : s \in SeqsUpTo(EmailChars, MaxEmailLen)}
        \cup {NanCell, NumCell(42)}

InitEmail ==
    /\ cfg \in {c \in Configs : c.dedupe_on_key /\ c.normalize_company_suffixes
                                  /\ c.strip_the_prefix}
    /\ arg \in EmailInputs
    /\ res = <<>>
    /\ pc = "email0"
    /\ PipelineIdle

\* the email column mapped through email_to_domain
MapEmail ==
    /\ pc = "email0"
    /\ res' = <<email_to_domain(arg)>>
    /\ pc' = "email1"
    /\ UNCHANGED <<cfg, key_type_a, key_type_b, cols_a, cols_b, df_a, df_b, a_keys,
                   b_in_both, merged, out_cols, emitted, error, arg>>

\* the mapped series normalized with for_company=False
NormalizeDomain ==
    /\ pc = "email1"
    /\ res' = Append(res, normalize_key_series(res[1], FALSE, cfg))
    /\ pc' = "email2"
    /\ UNCHANGED <<cfg, key_type_a, key_type_b, cols_a, cols_b, df_a, df_b, a_keys,
                   b_in_both, merged, out_cols, emitted, error, arg>>

NextEmail == MapEmail \/ NormalizeDomain

SpecEmail == InitEmail /\ [][NextEmail]_vars

-----------------------------------------------------------------------------
(* Properties *)

Rows(df) == Range(df)

\* the run got past the merge
Joined == pc = "done" /\ ~merge_raises(cols_a, cols_b)

\* k is a member of KeySet: a non-absent Key of some row of List A
InKeySet(k) == k # NA /\ \E i \in DOMAIN df_a : df_a[i].key = k

KeyOfRow(df, idx) == (CHOOSE r \in Rows(df) : r.idx = idx).key

CountKey(df, k) == Cardinality({i \in DOMAIN df : df[i].key = k})

RECURSIVE SumProducts(_)
SumProducts(keys) ==
    IF keys = {} THEN 0
    ELSE LET k == CHOOSE x \in keys : TRUE IN
         CountKey(df_a, k) * CountKey(df_b, k) + SumProducts(keys \ {k})

OriginalCols(cols) == cols \ {"_key_norm"}

\* C1: the filtered result is exactly the rows of the deduplicated List B
\* whose Key is a non-absent Key of List A, in List B's row order; a_keys is
\* KeySet; the filtered result has at most as many rows as List B.
C1_FilteredIsKeySetMembers ==
    pc = "done" =>
        /\ \A k \in a_keys \cup {r.key : r \in Rows(df_a)} : k \in a_keys <=> InKeySet(k)
        /\ \A i \in DOMAIN b_in_both :
              /\ b_in_both[i] \in Rows(df_b)
              /\ InKeySet(b_in_both[i].key)
        /\ \A j \in DOMAIN df_b :
              InKeySet(df_b[j].key) => df_b[j] \in Rows(b_in_both)
        /\ \A i, j \in DOMAIN b_in_both : i < j => b_in_both[i].idx < b_in_both[j].idx
        /\ Len(b_in_both) <= Len(df_b)

\* C1 witness: of two List B rows the first is filtered out and the second kept
C1_Witness ==
    /\ pc = "done"
    /\ Len(df_b) = 2
    /\ Len(b_in_both) = 1
    /\ b_in_both[1].idx = 2

\* C2: no row of the filtered result and no row of the joined result comes
\* from a List A row or a List B row whose Key is absent.
C2_AbsentNeverMatches ==
    pc = "done" =>
        /\ \A r \in Rows(b_in_both) : r.key # NA
        /\ \A m \in merged : KeyOfRow(df_a, m.a) # NA /\ KeyOfRow(df_b, m.b) # NA

\* C3: the joined result has, summed over the distinct Keys present in both
\* lists, (rows of A with the Key) x (rows of B with the Key) rows.
C3_JoinedCount ==
    Joined =>
        Cardinality(merged) =
            SumProducts({k \in {r.key : r \in Rows(df_a)} \cap {r.key : r \in Rows(df_b)} :
                            k # NA})

\* a table with keys attached, deduplicated as the Deduplicator is described:
\* the first row of every distinct non-absent Key and every absent-keyed row
DescribedDedupe(df, flag) ==
    IF flag
    THEN SelectSeq(df, LAMBDA r : r.key = NA \/ \A j \in 1..(r.idx - 1) : df[j].key # r.key)
    ELSE df

\* C4: with dedupe_on_key set each table keeps the first row of every distinct
\* non-absent Key and every absent-keyed row, in the original order; with the
\* flag unset the table is unchanged.
C4_Dedupe ==
    [][pc = "uploaded" /\ pc' = "ready" =>
        /\ df_a' = DescribedDedupe(attach_key(df_a, key_series(df_a, key_type_a, cfg)),
                                   cfg.dedupe_on_key)
        /\ df_b' = DescribedDedupe(attach_key(df_b, key_series(df_b, key_type_b, cfg)),
                                   cfg.dedupe_on_key)]_vars

\* a cell the email-domain mode cannot derive a domain from
SoftSkipCell(cell) == cell.kind # "str" \/ ~Contains(cell.s, "@")

\* C5: in email-domain mode a cell that is not a string, or a string without
\* '@', gets an absent Key, and its row is in neither the filtered nor the
\* joined result.
C5_SoftSkip ==
    pc = "done" =>
        /\ key_type_a = "email" =>
              \A r \in Rows(df_a) : SoftSkipCell(r.cell) =>
                  r.key = NA /\ \A m \in merged : m.a # r.idx
        /\ key_type_b = "email" =>
              \A r \in Rows(df_b) : SoftSkipCell(r.cell) =>
                  /\ r.key = NA
                  /\ r \notin Rows(b_in_both)
                  /\ \A m \in merged : m.b # r.idx

\* C6: normalizing the result of a normalization gives that result again.
C6_Idempotent == pc = "norm2" => res[2] = res[1]

\* C7: the exported filtered table has exactly List B's original columns, and
\* the exported joined table only the original columns of A and B under the
\* _A/_B suffixes; no key column is added.
C7_NoKeyColumnExported ==
    /\ "download_filtered" \in emitted => out_cols.filtered = OriginalCols(cols_b)
    /\ "download_joined" \in emitted =>
          out_cols.joined =
              suffixed(OriginalCols(cols_a), OriginalCols(cols_b), "_A")
                  \cup suffixed(OriginalCols(cols_b), OriginalCols(cols_a), "_B")

\* C8: a run that reports an error has emitted none of its outputs, and a run
\* that emitted an output emitted all of them.
C8_AllOrNothing ==
    pc = "done" =>
        /\ error => emitted = {}
        /\ emitted # {} =>
              {"summary", "preview", "download_filtered", "download_joined"} \subseteq emitted

CountChar(s, c) == Cardinality({i \in DOMAIN s : s[i] = c})

\* C9 as stated: absent unless the string holds exactly one '@'; with exactly
\* one '@' the domain is the substring after it.
C9_ExactlyOneAt ==
    pc = "email1" /\ arg.kind = "str" =>
        IF CountChar(arg.s, "@") = 1
        THEN res[1] = TextCell(AfterFirst(arg.s, "@"))
        ELSE res[1] = NoneVal

\* d is t without its surrounding whitespace, in lower case
IsStrippedLower(d, t) ==
    \E l, r \in 0..Len(t) :
        /\ l + r <= Len(t)
        /\ \A k \in 1..l : IsSpace(t[k])
        /\ \A k \in (Len(t) - r + 1)..Len(t) : IsSpace(t[k])
        /\ Len(d) = Len(t) - l - r
        /\ \A k \in 1..Len(d) : d[k] = LowerChar(t[l + k])
        /\ d # <<>> => ~IsSpace(d[1]) /\ ~IsSpace(d[Len(d)])

\* C9 amended: email_to_domain returns None unless its argument is a string
\* with at least one '@'; then it returns what follows the first '@', without
\* surrounding whitespace and in lower case.
C9_AtLeastOneAt ==
    pc = "email1" =>
        IF arg.kind # "str" \/ CountChar(arg.s, "@") = 0
        THEN res[1] = NoneVal
        ELSE /\ res[1].kind = "str"
             /\ \E i \in DOMAIN arg.s :
                   /\ arg.s[i] = "@"
                   /\ \A j \in 1..(i - 1) : arg.s[j] # "@"
                   /\ IsStrippedLower(res[1].s, SubSeq(arg.s, i + 1, Len(arg.s)))

\* C9 witness: a string with two '@' yields a domain that itself holds an '@'
C9_Witness ==
    /\ pc = "email1"
    /\ arg.kind = "str"
    /\ CountChar(arg.s, "@") = 2
    /\ res[1].kind = "str"
    /\ Contains(res[1].s, "@")

\* C10: a List B row is in the filtered result exactly when it contributes a
\* row to the joined result; with dedupe_on_key set the two results have the
\* same number of rows.
C10_OutputsAgree ==
    Joined =>
        /\ \A r \in Rows(df_b) :
              r \in Rows(b_in_both) <=> \E m \in merged : m.b = r.idx
        /\ cfg.dedupe_on_key => Cardinality(merged) = Len(b_in_both)

====
